---- MODULE Spec2Model ----
(***************************************************************************)
(* Model of src/src/melt.rs: the balanced hierarchical decomposition of a  *)
(* rooted tree (hierarchical_decomp) and the non-gap prefix-sum index      *)
(* (oneshot_melt, CrucibleCtxt).                                           *)
(*                                                                         *)
(* Arrays (Vec, slices, ndarray rows) are functions on 0..n-1, as in the   *)
(* code; decomposition_ranges is a sequence in push order.  A queue entry  *)
(* is the tuple <<size, <<lb, ub>>, root>> of melt.rs:59.                  *)
(***************************************************************************)
EXTENDS Integers, Sequences, FiniteSets, Bags, TLC

VARIABLES
    tree,                  \* the input tree (read-only)
    max_size,              \* the max_size argument
    build,                 \* what the build fixes: overflow checks, tie order of the unstable sort
    reordered_taxa,        \* melt.rs:53
    pq,                    \* melt.rs:55, a bag of queue entries
    cuts,                  \* melt.rs:56
    decomposition_ranges,  \* melt.rs:57
    tree_sizes,            \* melt.rs:60
    pc,                    \* "loop" | "done" | "aborted" | "panic"
    popped,                \* the entry taken by the last pq.pop() (<<>> before the first)
    outcome,               \* per recorded range: what the iteration that recorded it went on to do
    records,               \* melt.rs:135-137, the alignment records (head = taxon id, seq)
    nchars_prefix,         \* melt.rs:146
    row,                   \* melt.rs:147, the row index i the build loop is at
    subsets,               \* melt.rs:160-166, the subset files written, by range index
    ctxt,                  \* melt.rs:167-170, the CrucibleCtxt
    query,                 \* the hmm_idx of the last retrieve call (-1 before the first)
    buf,                   \* the buffer the last retrieve call filled
    mpc                    \* oneshot_melt: "decomp" | "build" | "write" | "serve" | "panic"

decompVars == <<tree, max_size, build, reordered_taxa, pq, cuts,
                decomposition_ranges, tree_sizes, pc, popped, outcome>>

meltVars == <<records, nchars_prefix, row, subsets, ctxt, query, buf, mpc>>

-----------------------------------------------------------------------------
(* Bounds of the model *)

MaxNodes == 6
MaxMaxSize == 4
MaxCols == 2

-----------------------------------------------------------------------------
(* Tree Model (ogcat::ogtree): nodes 0..nnodes-1, node 0 the root.         *)

\* ascending sequence of a finite set of integers
SortedSeq(S) ==
    [k \in 1 .. Cardinality(S) |->
        CHOOSE x \in S : Cardinality({y \in S : y < x}) = k - 1]

Nodes(t) == 0 .. (t.nnodes - 1)

\* tree.children(i), in sibling order
children(t, i) == t.children[i]

\* tree.is_leaf(i)
is_leaf(t, i) == t.children[i] = <<>>

\* PostorderIterator::from_node_excluding(tree, node, excl): the start node is
\* always visited; a child found in excl is not entered.
RECURSIVE PostorderFromExcluding(_, _, _)
RECURSIVE PostorderOfEach(_, _, _)
PostorderOfEach(t, cs, excl) ==
    IF cs = <<>> THEN <<>>
    ELSE (IF Head(cs) \in excl THEN <<>> ELSE PostorderFromExcluding(t, Head(cs), excl))
         \o PostorderOfEach(t, Tail(cs), excl)

PostorderFromExcluding(t, node, excl) ==
    PostorderOfEach(t, children(t, node), excl) \o <<node>>

\* tree.postorder_from(node)
postorder_from(t, node) == PostorderFromExcluding(t, node, {})

\* tree.postorder()
postorder(t) == postorder_from(t, 0)

\* tree.ancestors(i): the proper ancestors of i, nearest first, up to the root
RECURSIVE ancestors(_, _)
ancestors(t, i) ==
    IF i = 0 THEN <<>>
    ELSE <<t.parents[i]>> \o ancestors(t, t.parents[i])

SeqRange(s) == {s[x] : x \in 1 .. Len(s)}

Leaves(t) == {i \in Nodes(t) : is_leaf(t, i)}

\* i and its ancestors under the parent map p
RECURSIVE PathToRoot(_, _)
PathToRoot(p, i) == IF i = 0 THEN {0} ELSE {i} \cup PathToRoot(p, p[i])

\* the parent maps of the ordered rooted trees of N nodes, a node's id being
\* its rank in pre-order (the order in which a Newick string introduces the
\* nodes): node N-1 hangs below the last node or below one of its ancestors
RECURSIVE ParentMaps(_)
ParentMaps(N) ==
    IF N = 1 THEN {[i \in {0} |-> 0]}
    ELSE {[i \in 0 .. N - 1 |-> IF i = N - 1 THEN q[2] ELSE q[1][i]] :
             q \in {pq2 \in ParentMaps(N - 1) \X (0 .. N - 2) :
                       pq2[2] \in PathToRoot(pq2[1], N - 2)}}

\* leaf -> taxon id, in leaf order (rev = FALSE) or in reverse leaf order
TaxaOf(N, p, rev) ==
    LET lv == SortedSeq({i \in 0 .. N - 1 : \A c \in 1 .. N - 1 : p[c] # i})
        k  == Len(lv)
    IN [i \in 0 .. N - 1 |->
          IF \E x \in 1 .. k : lv[x] = i
          THEN LET x == CHOOSE x \in 1 .. k : lv[x] = i
               IN IF rev THEN k - x ELSE x - 1
          ELSE -1]

\* the Tree of N nodes with parent map p: parents, the sibling lists (in id
\* order), the leaf -> taxon id map and the number of taxa
MkTree(N, p, rev) ==
    [nnodes   |-> N,
     parents  |-> p,
     children |-> [i \in 0 .. N - 1 |-> SortedSeq({c \in 1 .. N - 1 : p[c] = i})],
     taxa     |-> TaxaOf(N, p, rev),
     ntaxa    |-> Cardinality({i \in 0 .. N - 1 : \A c \in 1 .. N - 1 : p[c] # i})]

SmallTrees ==
    UNION {{MkTree(N, p, rev) : p \in ParentMaps(N), rev \in BOOLEAN} : N \in 1 .. MaxNodes}

\* ((a,b),(c,d)),((e,f),(g,h)): the balanced binary tree with 8 leaves
Balanced8Parents ==
    [i \in 0 .. 14 |->
        CASE i \in {0, 1, 8} -> 0
          [] i \in {2, 5}    -> 1
          [] i \in {3, 4}    -> 2
          [] i \in {6, 7}    -> 5
          [] i \in {9, 12}   -> 8
          [] i \in {10, 11}  -> 9
          [] OTHER           -> 12]

Balanced8 == MkTree(15, Balanced8Parents, FALSE)

\* the star tree: a root whose 5 children are leaves
Star5 == MkTree(6, [i \in 0 .. 5 |-> 0], FALSE)

\* the balanced tree of 4 leaves, ((a,b),(c,d))
Quartet ==
    MkTree(7, [i \in 0 .. 6 |-> IF i \in {2, 3} THEN 1 ELSE IF i \in {5, 6} THEN 4 ELSE 0], FALSE)

Trees == SmallTrees \cup {Balanced8, Star5, Quartet}

-----------------------------------------------------------------------------
(* Machine arithmetic.  tree_sizes holds u64, size is usize and the table  *)
(* holds u32; the unsigned word is narrowed to 31 bits, every size in the  *)
(* model being far below that, so that a wrapped difference is still a     *)
(* very large value.                                                       *)

WordMax == 2147483647

\* u64::MAX
U64_MAX == WordMax

\* a - b on unsigned words without overflow checks (wraps)
WrapSub(a, b) == IF a >= b THEN a - b ELSE (U64_MAX - (b - a)) + 1

\* a + b on unsigned words without overflow checks (wraps)
WrapAdd(a, b) == IF a <= U64_MAX - b THEN a + b ELSE (a - (U64_MAX - b)) - 1

\* u64::abs_diff
abs_diff(a, b) == IF a >= b THEN a - b ELSE b - a

-----------------------------------------------------------------------------
(* BinaryHeap<(usize, (usize, usize), usize)>: a max-heap under the derived *)
(* lexicographic order of the tuple.                                        *)

EntryLess(a, b) ==
    \/ a[1] < b[1]
    \/ a[1] = b[1] /\ a[2][1] < b[2][1]
    \/ a[1] = b[1] /\ a[2][1] = b[2][1] /\ a[2][2] < b[2][2]
    \/ a[1] = b[1] /\ a[2] = b[2] /\ a[3] < b[3]

\* mutant: a min-heap, the smallest entry is popped
HeapMaxSmallest(q) == CHOOSE u \in BagToSet(q) : \A v \in BagToSet(q) : ~EntryLess(v, u)

\* the entry pq.pop() returns
HeapMax(q) == CHOOSE u \in BagToSet(q) : \A v \in BagToSet(q) : ~EntryLess(u, v)

HeapPop(q) == q (-) SetToBag({HeapMax(q)})

HeapPush(q, u) == q (+) SetToBag({u})

-----------------------------------------------------------------------------
(* hierarchical_decomp *)

\* melt.rs:60-69, the subtree size table: one pass over tree.postorder()
RECURSIVE SizePass(_, _, _)
RECURSIVE SumChildren(_, _, _)
SumChildren(ts, cs, acc) ==
    IF cs = <<>> THEN acc ELSE SumChildren(ts, Tail(cs), acc + ts[Head(cs)])

SizePass(t, order, ts) ==
    IF order = <<>> THEN ts
    ELSE LET i == Head(order)
             v == IF is_leaf(t, i) THEN 1 ELSE SumChildren(ts, children(t, i), ts[i])
         IN SizePass(t, Tail(order), [ts EXCEPT ![i] = v])

\* mutant: the pass runs in pre-order, a node before its children
InitialTreeSizesPreorder(t) ==
    SizePass(t, [x \in 1 .. t.nnodes |-> x - 1], [i \in Nodes(t) |-> 0])

\* melt.rs:60-69, the table after the pass over tree.postorder()
InitialTreeSizes(t) == SizePass(t, postorder(t), [i \in Nodes(t) |-> 0])

\* mutant: the subtree is compared with the whole unit, not with the rest
InbalanceToWhole(size, tsi) == abs_diff(size, tsi)

\* melt.rs:88, the imbalance of a cut at a node whose table entry is tsi
Inbalance(size, tsi) == abs_diff(WrapSub(size, tsi), tsi)

\* mutant: leaves are taken as cut candidates too
VisitCandidateLeaves(t, i, root, size, ts, acc) ==
    IF i = root THEN acc
    ELSE LET inbalance == Inbalance(size, ts[i])
         IN [best_inbalance |-> IF inbalance < acc.best_inbalance
                                THEN inbalance ELSE acc.best_inbalance,
             best_cut       |-> IF inbalance < acc.best_inbalance
                                THEN i ELSE acc.best_cut,
             non_leaf       |-> TRUE,
             underflow      |-> acc.underflow \/ ts[i] > size]

\* melt.rs:82-93, the body of the search loop at node i: the state of
\* (best_inbalance, best_cut, non_leaf) after it, given the state acc before
VisitCandidate(t, i, root, size, ts, acc) ==
    IF i = root \/ is_leaf(t, i) THEN acc
    ELSE LET inbalance == Inbalance(size, ts[i])
         IN [best_inbalance |-> IF inbalance < acc.best_inbalance
                                THEN inbalance ELSE acc.best_inbalance,
             best_cut       |-> IF inbalance < acc.best_inbalance
                                THEN i ELSE acc.best_cut,
             non_leaf       |-> TRUE,
             underflow      |-> acc.underflow \/ ts[i] > size]

\* melt.rs:78-94, the search for the best cut over the iterator `it`
\* (each intermediate state is bound once, as a value)
RECURSIVE FindBestCut(_, _, _, _, _, _)
FindBestCut(t, it, root, size, ts, acc) ==
    IF it = <<>> THEN acc
    ELSE CHOOSE res \in {FindBestCut(t, Tail(it), root, size, ts, a) :
                            a \in {VisitCandidate(t, Head(it), root, size, ts, b) : b \in {acc}}} :
             TRUE

\* mutant: the candidates are visited in reverse post-order
BestCutReversed(t, root, size, ts, excl) ==
    LET it == PostorderFromExcluding(t, root, excl)
    IN FindBestCut(t, [x \in 1 .. Len(it) |-> it[Len(it) + 1 - x]], root, size, ts,
                   [best_inbalance |-> U64_MAX, best_cut |-> 0,
                    non_leaf |-> FALSE, underflow |-> FALSE])

\* melt.rs:77-94, the search started from root over the nodes outside excl
BestCut(t, root, size, ts, excl) ==
    FindBestCut(t, PostorderFromExcluding(t, root, excl), root, size, ts,
                [best_inbalance |-> U64_MAX, best_cut |-> 0,
                 non_leaf |-> FALSE, underflow |-> FALSE])

\* mutant: the walk does not stop at root
RECURSIVE ReduceAncestorsPastRoot(_, _, _, _)
ReduceAncestorsPastRoot(anc, root, d, r) ==
    IF anc = <<>> THEN r
    ELSE CHOOSE res \in
             {ReduceAncestorsPastRoot(Tail(anc), root, d, r1) :
                r1 \in {[sizes     |-> [q.sizes EXCEPT ![Head(anc)] = WrapSub(q.sizes[Head(anc)], d)],
                         underflow |-> q.underflow \/ q.sizes[Head(anc)] < d] : q \in {r}}} :
             TRUE

\* melt.rs:100-105, the walk up the ancestor chain of best_cut, stopping at root
RECURSIVE ReduceAncestors(_, _, _, _)
ReduceAncestors(anc, root, d, r) ==
    IF anc = <<>> \/ Head(anc) = root THEN r
    ELSE CHOOSE res \in
             {ReduceAncestors(Tail(anc), root, d, r1) :
                r1 \in {[sizes     |-> [q.sizes EXCEPT ![Head(anc)] = WrapSub(q.sizes[Head(anc)], d)],
                         underflow |-> q.underflow \/ q.sizes[Head(anc)] < d] : q \in {r}}} :
             TRUE

\* melt.rs:107-112, the taxa labelled "on the left": the leaves under best_cut
LabelledTaxa(t, best_cut) ==
    {t.taxa[u] : u \in {v \in SeqRange(postorder_from(t, best_cut)) : is_leaf(t, v)}}

Reverse(s) == [x \in 1 .. Len(s) |-> s[Len(s) + 1 - x]]

\* mutant: the key is the label itself, unlabelled taxa come first
SortByLabelUnlabelledFirst(view, label, tie_order) ==
    LET left  == SelectSeq(view, LAMBDA e : e \in label)
        right == SelectSeq(view, LAMBDA e : e \notin label)
    IN IF tie_order = "keep" THEN right \o left
       ELSE Reverse(right) \o Reverse(left)

\* melt.rs:113-114, view.sort_unstable_by_key(|e| !taxa_label[*e]) on the
\* slice as a sequence: labelled taxa (key false) before unlabelled ones; the
\* order among equal keys is the one the build's sort leaves them in.
SortByLabel(view, label, tie_order) ==
    LET left  == SelectSeq(view, LAMBDA e : e \in label)
        right == SelectSeq(view, LAMBDA e : e \notin label)
    IN IF tie_order = "keep" THEN left \o right
       ELSE Reverse(left) \o Reverse(right)

\* mutant: the view is read from the start of reordered_taxa, not from lb
PartitionSliceFromZero(rt, lb, ub, label, tie_order) ==
    LET view   == [x \in 1 .. ub - lb |-> rt[x - 1]]
        sorted == SortByLabel(view, label, tie_order)
    IN [x \in DOMAIN rt |-> IF lb <= x /\ x < ub THEN sorted[x - lb + 1] ELSE rt[x]]

\* reordered_taxa with the slice [lb, ub) replaced by its sorted arrangement
PartitionSlice(rt, lb, ub, label, tie_order) ==
    LET view   == [x \in 1 .. ub - lb |-> rt[lb + x - 1]]
        sorted == SortByLabel(view, label, tie_order)
    IN [x \in DOMAIN rt |-> IF lb <= x /\ x < ub THEN sorted[x - lb + 1] ELSE rt[x]]

TieOrders == {"keep", "flip"}

Builds == [overflow_checks : BOOLEAN, tie_order : TieOrders]

\* melt.rs:52-69, on a tree of `trees` and a max_size of `sizes`
InitDecomp(trees, sizes) ==
    /\ tree \in trees
    /\ max_size \in sizes
    /\ build \in Builds
    /\ reordered_taxa = [x \in 0 .. tree.ntaxa - 1 |-> x]
    /\ cuts = {0}
    /\ pq = SetToBag({<<tree.ntaxa, <<0, tree.ntaxa>>, 0>>})
    /\ decomposition_ranges = <<>>
    /\ tree_sizes = InitialTreeSizes(tree)
    /\ pc = "loop"
    /\ popped = <<>>
    /\ outcome = <<>>

\* oneshot_melt before its records are read
InitMeltVars ==
    /\ records = <<>>
    /\ nchars_prefix = <<>>
    /\ row = 0
    /\ subsets = <<>>
    /\ ctxt = [nchars_partial_sum |-> <<>>, hmm_ranges |-> <<>>]
    /\ query = -1
    /\ buf = <<>>
    /\ mpc = "decomp"

Init == InitDecomp(Trees, 1 .. MaxMaxSize) /\ InitMeltVars

\* melt.rs:70, the loop condition: an entry is popped
CanPop == pc = "loop" /\ pq # EmptyBag

\* mutant: singleton units are recorded too
ShouldRecordSingletons(size) == size >= 1

\* melt.rs:71, the test that guards the push of a range
ShouldRecord(size) == size >= 2

\* mutant: a unit of exactly max_size is taken as final
IsFinalInclusive(size, max) == size <= max

\* melt.rs:74, the test that ends the iteration of a unit without a search
IsFinal(size, max) == size < max

\* melt.rs:71-73; outcome notes the unit's root and what the iteration did next
Record(u, what) ==
    IF ShouldRecord(u[1])
    THEN /\ decomposition_ranges' = Append(decomposition_ranges, u[2])
         /\ outcome' = Append(outcome, [root |-> u[3], what |-> what])
    ELSE UNCHANGED <<decomposition_ranges, outcome>>

\* mutant: the cut is not remembered
InsertCutForgotten(cs, best_cut) == cs

\* melt.rs:106
InsertCut(cs, best_cut) == cs \cup {best_cut}

\* mutant: the cut-off range takes one index too many
CutOffUnitInclusive(lb, d, best_cut) == <<d, <<lb, WrapAdd(lb, d) + 1>>, best_cut>>

\* melt.rs:116, the unit cut off at best_cut, d being tree_sizes[best_cut]
CutOffUnit(lb, d, best_cut) == <<d, <<lb, WrapAdd(lb, d)>>, best_cut>>

\* mutant: the remainder keeps the lower bound of the unit that was split
RemainderUnitFromLb(size, lb, ub, d, root) == <<WrapSub(size, d), <<lb, ub>>, root>>

\* melt.rs:117, the remainder, still rooted at root
RemainderUnit(size, lb, ub, d, root) == <<WrapSub(size, d), <<WrapAdd(lb, d), ub>>, root>>

\* melt.rs:70-76, an iteration on a unit below max_size: recorded, not searched
Final ==
    /\ CanPop
    /\ \E u \in {HeapMax(pq)} :
          /\ IsFinal(u[1], max_size)
          /\ popped' = u
          /\ pq' = HeapPop(pq)
          /\ Record(u, "final")
          /\ UNCHANGED <<tree, max_size, build, reordered_taxa, cuts, tree_sizes, pc>>
          /\ UNCHANGED meltVars

\* melt.rs:70-99, an iteration that finds no internal candidate: break
LeafCluster ==
    /\ CanPop
    /\ \E u \in {HeapMax(pq)} :
          /\ ~IsFinal(u[1], max_size)
          /\ \E s \in {BestCut(tree, u[3], u[1], tree_sizes, cuts)} :
                /\ ~s.non_leaf
                /\ popped' = u
                /\ pq' = HeapPop(pq)
                /\ Record(u, "leaf_cluster")
                /\ pc' = "done"
                /\ UNCHANGED <<tree, max_size, build, reordered_taxa, cuts, tree_sizes>>
                /\ UNCHANGED meltVars

\* melt.rs:100-117, the cut at s.best_cut applied to the popped unit u
ApplyCut(u, s) ==
    \E r \in {ReduceAncestors(ancestors(tree, s.best_cut), u[3], tree_sizes[s.best_cut],
                              [sizes |-> tree_sizes, underflow |-> FALSE])} :
        LET size == u[1]
            lb   == u[2][1]
            ub   == u[2][2]
            root == u[3]
            bc   == s.best_cut
            d    == r.sizes[bc]
        IN IF \/ r.underflow /\ build.overflow_checks   \* melt.rs:104
              \/ lb > ub \/ ub > tree.ntaxa             \* melt.rs:113
              \/ d > size /\ build.overflow_checks      \* melt.rs:117
           THEN /\ pc' = "panic"
                /\ pq' = HeapPop(pq)
                /\ Record(u, "panic")
                /\ UNCHANGED <<reordered_taxa, cuts, tree_sizes>>
           ELSE /\ tree_sizes' = r.sizes
                /\ cuts' = InsertCut(cuts, bc)
                /\ reordered_taxa' =
                       PartitionSlice(reordered_taxa, lb, ub,
                                      LabelledTaxa(tree, bc), build.tie_order)
                /\ pq' = HeapPush(HeapPush(HeapPop(pq), CutOffUnit(lb, d, bc)),
                                  RemainderUnit(size, lb, ub, d, root))
                /\ Record(u, "cut")
                /\ pc' = "loop"

\* melt.rs:70-117, an iteration that finds a candidate and applies the cut
Cut ==
    /\ CanPop
    /\ \E u \in {HeapMax(pq)} :
          /\ ~IsFinal(u[1], max_size)
          /\ \E s \in {BestCut(tree, u[3], u[1], tree_sizes, cuts)} :
                /\ s.non_leaf
                /\ popped' = u
                /\ UNCHANGED <<tree, max_size, build>>
                /\ UNCHANGED meltVars
                /\ IF s.underflow /\ build.overflow_checks
                   THEN \* melt.rs:88 panics in the search
                        /\ pc' = "panic"
                        /\ pq' = HeapPop(pq)
                        /\ Record(u, "panic")
                        /\ UNCHANGED <<reordered_taxa, cuts, tree_sizes>>
                   ELSE IF s.best_inbalance = U64_MAX
                   THEN \* melt.rs:96, "No cut found"
                        /\ pc' = "aborted"
                        /\ pq' = HeapPop(pq)
                        /\ Record(u, "aborted")
                        /\ UNCHANGED <<reordered_taxa, cuts, tree_sizes>>
                   ELSE ApplyCut(u, s)

\* melt.rs:70, pq.pop() returns None: the loop ends and the result is returned
Exit ==
    /\ pc = "loop"
    /\ pq = EmptyBag
    /\ pc' = "done"
    /\ UNCHANGED <<tree, max_size, build, reordered_taxa, pq, cuts,
                   decomposition_ranges, tree_sizes, popped, outcome>>
    /\ UNCHANGED meltVars

Next == Final \/ LeafCluster \/ Cut \/ Exit

vars == <<decompVars, meltVars>>

Spec == Init /\ [][Next]_vars

\* the loop is scheduled until it exits: nothing suspends hierarchical_decomp
FairSpec == Spec /\ WF_vars(Next)

-----------------------------------------------------------------------------
(* oneshot_melt and CrucibleCtxt *)

Gap == "-"

Symbols == {Gap, "A"}

\* the alignments of width k with one record per taxon, in the file order
\* `order` (a sequence of taxon ids)
Alignments(order, k) ==
    {[p \in 0 .. Len(order) - 1 |-> [head |-> order[p + 1], seq |-> sq[p]]] :
        sq \in [0 .. Len(order) - 1 -> [0 .. k - 1 -> Symbols]]}

\* the file orders drawn: by taxon id, ascending and descending
FileOrders(n) == {[x \in 1 .. n |-> x - 1], [x \in 1 .. n |-> n - x]}

\* melt.rs:139-143, records.sort_unstable_by_key(|r| reordered_taxa[id of r]):
\* ascending keys, equal keys in the order the build's sort leaves them in
SortRecords(recs, rt, tie_order) ==
    LET n == Cardinality(DOMAIN recs)
        Before(a, b) ==
            \/ rt[recs[a].head] < rt[recs[b].head]
            \/ /\ rt[recs[a].head] = rt[recs[b].head]
               /\ IF tie_order = "keep" THEN a < b ELSE b < a
    IN [p \in 0 .. n - 1 |->
          recs[CHOOSE a \in 0 .. n - 1 :
                  Cardinality({b \in 0 .. n - 1 : Before(b, a)}) = p]]

\* melt.rs:150-153, the `if records[i-1].seq[j] == b'-' { 0 } else { 1 }`
NonGap(recs, i, j) == IF recs[i - 1].seq[j] = Gap THEN 0 ELSE 1

\* mutant: the count of the rows above is not carried over
PrefixCellNoCarry(tab, recs, i, j) == NonGap(recs, i, j)

\* melt.rs:149-154, the value written to nchars_prefix[[i, j]]
PrefixCell(tab, recs, i, j) ==
    IF i = 1 THEN NonGap(recs, i, j)
    ELSE tab[i - 1][j] + NonGap(recs, i, j)

\* mutant: the count up to `start` is not taken off
RetrieveCellFromZero(tab, start, end, j) == tab[end][j]

\* melt.rs:35, the value written to buf[i]
RetrieveCell(tab, start, end, j) == WrapSub(tab[end][j], tab[start][j])

\* melt.rs:131-146: the decomposition has returned; the records are read and
\* sorted, n and k are taken and the zero table is allocated
ReadRecords ==
    /\ mpc = "decomp"
    /\ pc = "done"
    /\ \E order \in FileOrders(tree.ntaxa), k \in 1 .. MaxCols :
          \E input \in Alignments(order, k) :
              /\ records' = SortRecords(input, reordered_taxa, build.tie_order)
              /\ nchars_prefix' = [i \in 0 .. tree.ntaxa |-> [j \in 0 .. k - 1 |-> 0]]
    /\ row' = 1
    /\ mpc' = "build"
    /\ UNCHANGED <<subsets, ctxt, query, buf>>
    /\ UNCHANGED decompVars

NRecords == Cardinality(DOMAIN records)

NCols == Cardinality(DOMAIN records[0].seq)

\* melt.rs:147-156, one pass of the outer loop: row i of the table
BuildRow ==
    /\ mpc = "build"
    /\ row <= NRecords
    /\ nchars_prefix' =
           [nchars_prefix EXCEPT ![row] =
               [j \in 0 .. NCols - 1 |-> PrefixCell(nchars_prefix, records, row, j)]]
    /\ row' = row + 1
    /\ UNCHANGED <<records, subsets, ctxt, query, buf, mpc>>
    /\ UNCHANGED decompVars

\* melt.rs:147, the build loop ends
BuildDone ==
    /\ mpc = "build"
    /\ row > NRecords
    /\ mpc' = "write"
    /\ UNCHANGED <<records, nchars_prefix, row, subsets, ctxt, query, buf>>
    /\ UNCHANGED decompVars

\* melt.rs:157-172: the subset file of every range is written (the heads of
\* records[lb..ub], in order) and the context is built and serialized
WriteOut ==
    /\ mpc = "write"
    /\ IF \E x \in 1 .. Len(decomposition_ranges) :
             \/ decomposition_ranges[x][1] > decomposition_ranges[x][2]
             \/ decomposition_ranges[x][2] > NRecords
       THEN \* melt.rs:161, the slice is out of range
            /\ mpc' = "panic"
            /\ UNCHANGED <<subsets, ctxt>>
       ELSE /\ subsets' =
                  [x \in 1 .. Len(decomposition_ranges) |->
                      [y \in 1 .. decomposition_ranges[x][2] - decomposition_ranges[x][1] |->
                          records[decomposition_ranges[x][1] + y - 1].head]]
            /\ ctxt' = [nchars_partial_sum |-> nchars_prefix,
                        hmm_ranges |-> decomposition_ranges]
            /\ mpc' = "serve"
    /\ UNCHANGED <<records, nchars_prefix, row, query, buf>>
    /\ UNCHANGED decompVars

\* melt.rs:30-37, retrieve_nchars_noalloc(hmm_idx, b) on the buffer b
RetrieveInto(hmm_idx, b) ==
    LET tab   == ctxt.nchars_partial_sum
        start == ctxt.hmm_ranges[hmm_idx + 1][1]
        end   == ctxt.hmm_ranges[hmm_idx + 1][2]
        k     == Cardinality(DOMAIN tab[0])
    IN IF \/ Cardinality(DOMAIN b) < k                           \* buf[i] out of range
          \/ start \notin DOMAIN tab \/ end \notin DOMAIN tab    \* table index out of range
          \/ /\ build.overflow_checks
             /\ \E j \in 0 .. k - 1 : tab[end][j] < tab[start][j]
       THEN /\ mpc' = "panic"
            /\ UNCHANGED buf
       ELSE /\ buf' = [j \in DOMAIN b |->
                          IF j < k THEN RetrieveCell(tab, start, end, j) ELSE b[j]]
            /\ UNCHANGED mpc

\* melt.rs:39-44, retrieve_nchars(hmm_idx): a fresh buffer of k zeros is filled
RetrieveNchars ==
    /\ mpc = "serve"
    /\ \E hmm_idx \in 0 .. Len(ctxt.hmm_ranges) - 1 :
          /\ query' = hmm_idx
          /\ RetrieveInto(hmm_idx, [j \in DOMAIN ctxt.nchars_partial_sum[0] |-> 0])
    /\ UNCHANGED <<records, nchars_prefix, row, subsets, ctxt>>
    /\ UNCHANGED decompVars

\* what a caller's buffer holds before the call
Stale == 9

\* melt.rs:30-37, retrieve_nchars_noalloc(hmm_idx, buf) called on a caller's
\* buffer of k or k + 1 cells
RetrieveNoalloc ==
    /\ mpc = "serve"
    /\ \E hmm_idx \in 0 .. Len(ctxt.hmm_ranges) - 1, extra \in 0 .. 1 :
          /\ query' = hmm_idx
          /\ RetrieveInto(hmm_idx,
                 [j \in 0 .. Cardinality(DOMAIN ctxt.nchars_partial_sum[0]) - 1 + extra |-> Stale])
    /\ UNCHANGED <<records, nchars_prefix, row, subsets, ctxt>>
    /\ UNCHANGED decompVars

\* the parent map given as the list of the parents of nodes 0, 1, ...
FromList(ps) == [i \in 0 .. Len(ps) - 1 |-> ps[i + 1]]

\* (a,b), ((a,b),c), ((a,b),c,d) and ((a,b),(c,d))
MeltTrees ==
    {MkTree(Len(ps), FromList(ps), FALSE) :
        ps \in {<<0, 0, 0>>, <<0, 0, 1, 1, 0>>, <<0, 0, 0, 2, 2, 0>>, <<0, 0, 1, 1, 0, 4, 4>>}}

InitMelt == InitDecomp(MeltTrees, 2 .. 3) /\ InitMeltVars

NextMelt ==
    \/ Final \/ LeafCluster \/ Cut \/ Exit
    \/ ReadRecords \/ BuildRow \/ BuildDone \/ WriteOut
    \/ RetrieveNchars \/ RetrieveNoalloc

SpecMelt == InitMelt /\ [][NextMelt]_vars

-----------------------------------------------------------------------------
(* Properties of hierarchical_decomp *)

NRanges == Len(decomposition_ranges)

\* the index set of the half-open range r
Indices(r) == r[1] .. r[2] - 1

Covered == UNION {Indices(decomposition_ranges[x]) : x \in 1 .. NRanges}

Disjoint(r1, r2) == Indices(r1) \cap Indices(r2) = {}

Nested(r1, r2) == Indices(r1) \subseteq Indices(r2) \/ Indices(r2) \subseteq Indices(r1)

RangeSize(r) == r[2] - r[1]

\* C1: reordered_taxa is a permutation of 0..ntaxa, in every state of the
\* work-list loop and in the returned value.
C1_Permutation ==
    /\ DOMAIN reordered_taxa = 0 .. tree.ntaxa - 1
    /\ {reordered_taxa[x] : x \in DOMAIN reordered_taxa} = 0 .. tree.ntaxa - 1
    /\ Cardinality(DOMAIN reordered_taxa) = tree.ntaxa

\* a run has returned with a taxon moved away from its initial position
C1_Witness ==
    /\ pc = "done"
    /\ \E x \in DOMAIN reordered_taxa : reordered_taxa[x] # x
    /\ NRanges >= 3

\* C2 as stated: the returned ranges are pairwise disjoint and their union is
\* exactly [0, ntaxa).
C2_DisjointCover ==
    pc = "done" =>
        /\ \A x, y \in 1 .. NRanges :
              x # y => Disjoint(decomposition_ranges[x], decomposition_ranges[y])
        /\ Covered = 0 .. tree.ntaxa - 1

\* C2 amended: any two returned ranges are disjoint or nested, and their
\* union is exactly [0, ntaxa) whenever the tree has at least 2 taxa; a tree
\* of a single taxon returns no range.
C2_LaminarCover ==
    pc = "done" =>
        /\ \A x, y \in 1 .. NRanges :
              \/ Disjoint(decomposition_ranges[x], decomposition_ranges[y])
              \/ Nested(decomposition_ranges[x], decomposition_ranges[y])
        /\ tree.ntaxa >= 2 => Covered = 0 .. tree.ntaxa - 1
        /\ tree.ntaxa < 2 => NRanges = 0

\* a returned list with two disjoint ranges inside a third one
C2_Witness ==
    /\ pc = "done"
    /\ \E x, y, z \in 1 .. NRanges :
          /\ Disjoint(decomposition_ranges[y], decomposition_ranges[z])
          /\ Indices(decomposition_ranges[y]) \cup Indices(decomposition_ranges[z])
                \subseteq Indices(decomposition_ranges[x])
          /\ x # y /\ x # z

\* C3: every recorded range has size ub - lb >= 2.
C3_RangeAtLeastTwo ==
    \A x \in 1 .. NRanges : RangeSize(decomposition_ranges[x]) >= 2

\* a unit of size 0 or 1 has just been popped, next to recorded ranges
C3_Witness ==
    /\ popped # <<>>
    /\ popped[1] < 2
    /\ NRanges >= 1
    /\ decomposition_ranges[NRanges] # popped[2]

\* no node below root, outside the cut subtrees, is internal
LeafOnly(root) ==
    \A i \in SeqRange(PostorderFromExcluding(tree, root, cuts)) :
        i = root \/ is_leaf(tree, i)

\* C4 as stated: every returned range is smaller than max_size or belongs to
\* a unit in which the search found no internal candidate.
C4_SmallOrLeafCluster ==
    pc = "done" =>
        \A x \in 1 .. NRanges :
            \/ RangeSize(decomposition_ranges[x]) < max_size
            \/ outcome[x].what = "leaf_cluster"

\* C4 amended: every recorded range is smaller than max_size, or belongs to
\* a unit that was split by a cut (so that its parts are queued), or
\* belongs to a unit of leaves only, with no internal node to cut at.
C4_SmallOrSplitOrLeafCluster ==
    \A x \in 1 .. NRanges :
        \/ RangeSize(decomposition_ranges[x]) < max_size
        \/ outcome[x].what = "cut"
        \/ outcome[x].what = "leaf_cluster" /\ LeafOnly(outcome[x].root)

\* a returned list holding a split unit and an unsplittable leaf cluster,
\* both of size >= max_size
C4_Witness ==
    /\ pc = "done"
    /\ \E x, y \in 1 .. NRanges :
          /\ outcome[x].what = "cut"
          /\ outcome[y].what = "leaf_cluster"
          /\ RangeSize(decomposition_ranges[x]) >= max_size
          /\ RangeSize(decomposition_ranges[y]) >= max_size

\* C5: the work-list loop reaches its exit: every run ends in "done", which
\* excludes the abort of the "No cut found" assertion.
C5_Terminates == <>(pc = "done")

\* a run that has exited through an empty queue after at least two cuts
C5_Witness ==
    /\ pc = "done"
    /\ pq = EmptyBag
    /\ Cardinality(cuts) >= 3

\* C6: the unit a pop returns is at least as large as every unit in the
\* queue at that moment.
C6_LargestFirst ==
    [][(pc = "loop" /\ pq # EmptyBag) =>
          \A v \in BagToSet(pq) : popped'[1] >= v[1]]_vars

\* a pop has left units of two different sizes pending, both smaller than
\* the popped one
C6_Witness ==
    /\ popped # <<>>
    /\ \E v, w \in BagToSet(pq) : v[1] < w[1] /\ w[1] < popped[1]

-----------------------------------------------------------------------------
(* Properties of the Sequence Count Index *)

\* the number of records at positions from .. to-1 with a non-gap in column j
DirectCount(from, to, j) ==
    Cardinality({p \in from .. to - 1 : records[p].seq[j] # Gap})

\* C8: after retrieve_nchars / retrieve_nchars_noalloc on range index r, with
\* hmm_ranges[r] = (start, end), buf[j] is the number of sequences at
\* positions start..end-1 whose symbol in column j is not the gap.
C8_RetrieveIsDirectCount ==
    (mpc = "serve" /\ query >= 0) =>
        \A j \in 0 .. NCols - 1 :
            buf[j] = DirectCount(ctxt.hmm_ranges[query + 1][1],
                                 ctxt.hmm_ranges[query + 1][2], j)

\* a query on a range that does not start at 0, over a column that has both
\* gaps and non-gaps inside the range and a non-gap before it
C8_Witness ==
    /\ mpc = "serve"
    /\ query >= 0
    /\ ctxt.hmm_ranges[query + 1][1] > 0
    /\ \E j \in 0 .. NCols - 1 :
          /\ buf[j] >= 1
          /\ buf[j] < ctxt.hmm_ranges[query + 1][2] - ctxt.hmm_ranges[query + 1][1]
          /\ DirectCount(0, ctxt.hmm_ranges[query + 1][1], j) >= 1

\* C9: once built, the prefix table has n+1 rows of k columns, row 0 is all
\* zero, entry (i, j) is the number of non-gaps in column j among the first i
\* sequences (so row n holds the column totals), and every column is
\* non-decreasing along the rows.
C9_PrefixTable ==
    mpc \in {"write", "serve"} =>
        /\ DOMAIN nchars_prefix = 0 .. NRecords
        /\ \A i \in 0 .. NRecords : DOMAIN nchars_prefix[i] = 0 .. NCols - 1
        /\ \A j \in 0 .. NCols - 1 : nchars_prefix[0][j] = 0
        /\ \A i \in 0 .. NRecords, j \in 0 .. NCols - 1 :
              nchars_prefix[i][j] = DirectCount(0, i, j)
        /\ \A i \in 1 .. NRecords, j \in 0 .. NCols - 1 :
              nchars_prefix[i - 1][j] <= nchars_prefix[i][j]

\* a built table of at least 3 rows of sequences with a column whose total
\* is neither 0 nor n and whose first sequence has a gap
C9_Witness ==
    /\ mpc = "write"
    /\ NRecords >= 3
    /\ \E j \in 0 .. NCols - 1 :
          /\ nchars_prefix[NRecords][j] >= 2
          /\ nchars_prefix[NRecords][j] < NRecords
          /\ nchars_prefix[1][j] = 0

\* C10 as stated: on the balanced binary tree with 8 leaves and max_size = 3,
\* 4 or 5 ranges are returned, they cover 0..8, and every range of size >= 3
\* is an unsplittable leaf cluster.
C10_FourOrFiveRanges ==
    (tree = Balanced8 /\ max_size = 3 /\ pc = "done") =>
        /\ NRanges \in {4, 5}
        /\ Covered = 0 .. 7
        /\ \A x \in 1 .. NRanges :
              \/ RangeSize(decomposition_ranges[x]) < 3
              \/ outcome[x].what = "leaf_cluster"

\* C10 amended: on that tree with max_size = 3, 7 ranges are returned, the
\* whole (0,8), its halves and the four pairs; they cover 0..8, and the
\* ranges of size >= 3 are the units that were split by a cut.
C10_SevenRanges ==
    (tree = Balanced8 /\ max_size = 3 /\ pc = "done") =>
        /\ decomposition_ranges =
              << <<0, 8>>, <<4, 8>>, <<0, 4>>, <<6, 8>>, <<4, 6>>, <<2, 4>>, <<0, 2>> >>
        /\ Covered = 0 .. 7
        /\ \A x \in 1 .. NRanges :
              \/ RangeSize(decomposition_ranges[x]) < 3
              \/ outcome[x].what = "cut"

\* the run on the balanced tree of 8 leaves with max_size = 3 has returned
C10_Witness ==
    /\ tree = Balanced8
    /\ max_size = 3
    /\ pc = "done"
    /\ pq = EmptyBag

-----------------------------------------------------------------------------
(* Further properties of hierarchical_decomp *)

IsStar5 == tree.nnodes = 6 /\ tree.parents = Star5.parents

\* C11: on the star tree of 5 leaves with 1 <= max_size < 5 the run does not
\* abort, applies no cut, leaves reordered_taxa in the identity order and
\* returns exactly one range, (0, 5).
C11_StarTree ==
    (IsStar5 /\ max_size < 5) =>
        /\ pc \notin {"aborted", "panic"}
        /\ cuts = {0}
        /\ reordered_taxa = [x \in 0 .. 4 |-> x]
        /\ pc = "done" => decomposition_ranges = << <<0, 5>> >>

\* the run on the star tree has returned, for a max_size below 5
C11_Witness ==
    /\ IsStar5
    /\ max_size < 5
    /\ pc = "done"
    /\ popped = <<5, <<0, 5>>, 0>>

\* C12: the work-list loop ends only when the queue is empty: a unit with
\* size >= max_size and no internal candidate stops only its own refinement,
\* so no unit is left in the queue, unpopped and unrecorded, when the
\* function returns.
C12_EndsOnlyWhenEmpty == pc = "done" => pq = EmptyBag

\* the step is an applied cut, and the node it cut at
IsCutStep == cuts' # cuts
NewCut == CHOOSE c \in cuts' \ cuts : TRUE

\* C13: each applied cut strictly reduces the unit: at the moment of the
\* cut 1 <= tree_sizes[best_cut] < size, so both units it enqueues are
\* non-empty and strictly smaller than the unit that was split.
C13_CutStrictlyReduces ==
    [][IsCutStep =>
          /\ 1 <= tree_sizes[NewCut]
          /\ tree_sizes[NewCut] < popped'[1]
          /\ \A v \in BagToSet(pq') \ BagToSet(pq) :
                1 <= v[1] /\ v[1] < popped'[1]]_vars

\* the slice of the unit a cut step has popped, and the taxa it labels
SliceOfCut == popped'[2][1] .. popped'[2][2] - 1
LabelOfCut == LabelledTaxa(tree, NewCut)
PositionOf(rt, e) == CHOOSE x \in DOMAIN rt : rt[x] = e

\* the labelled taxa precede the others in the slice, the slice keeps its
\* taxa, and no position outside the slice changes
PartitionedInPlace ==
    /\ \A x \in DOMAIN reordered_taxa \ SliceOfCut : reordered_taxa'[x] = reordered_taxa[x]
    /\ {reordered_taxa'[x] : x \in SliceOfCut} = {reordered_taxa[x] : x \in SliceOfCut}
    /\ \A x, y \in SliceOfCut :
          (reordered_taxa'[x] \in LabelOfCut /\ reordered_taxa'[y] \notin LabelOfCut) => x < y

\* C14 as stated: the partition of a cut step puts the taxa under best_cut
\* before all others of the slice, changes no position outside [lb, ub), and
\* is stable: two taxa on the same side keep their relative order.
C14_StablePartition ==
    [][IsCutStep =>
          /\ PartitionedInPlace
          /\ \A x, y \in SliceOfCut :
                (x < y /\ (reordered_taxa[x] \in LabelOfCut <=> reordered_taxa[y] \in LabelOfCut))
                    => PositionOf(reordered_taxa', reordered_taxa[x])
                          < PositionOf(reordered_taxa', reordered_taxa[y])]_vars

\* C14: the partition of a cut step puts the taxa under best_cut before all
\* others of the slice, keeps the taxa of the slice, and changes no position
\* outside [lb, ub); the order within each side is left to the unstable sort.
C14_Partition == [][IsCutStep => PartitionedInPlace]_vars

\* a cut has just split a unit into two parts of at least 2 taxa each, and
\* the permutation is no longer the identity
C14_Witness ==
    /\ popped # <<>>
    /\ pc = "loop"
    /\ \E v, w \in BagToSet(pq) :
          /\ v[3] \in cuts /\ v[3] # popped[3] /\ v[2][1] = popped[2][1] /\ v[1] >= 2
          /\ w[3] = popped[3] /\ w[2][2] = popped[2][2] /\ w[1] >= 2
          /\ v[1] + w[1] = popped[1]
    /\ \E x \in DOMAIN reordered_taxa : reordered_taxa[x] # x

\* the nodes reachable from root without entering a subtree whose root is
\* in excl: no node on the path from i up to root, root left out, is in excl
ReachableFrom(root, excl) ==
    {i \in Nodes(tree) :
        /\ root \in PathToRoot(tree.parents, i)
        /\ \A a \in PathToRoot(tree.parents, i) :
              (a # root /\ root \in PathToRoot(tree.parents, a)) => a \notin excl}

\* the internal nodes among them, root left out
Candidates(root, excl) ==
    {i \in ReachableFrom(root, excl) \ {root} : ~is_leaf(tree, i)}

\* |(size - k) - k|
ImbalanceOf(size, k) == IF size - k >= k THEN size - k - k ELSE k - (size - k)

\* i comes before j in post-order (node ids are pre-order ranks): j is a
\* proper ancestor of i, or neither is an ancestor of the other and i < j
PostBefore(i, j) ==
    \/ i # j /\ j \in PathToRoot(tree.parents, i)
    \/ i \notin PathToRoot(tree.parents, j) /\ i < j

\* C15: when a popped unit with size >= max_size has an internal candidate,
\* a cut is applied, and its node best_cut is an internal node other than
\* root, reachable from root without entering a cut subtree, of minimal
\* imbalance |(size - tree_sizes[i]) - tree_sizes[i]| among these candidates,
\* and the first of the minimal ones in post-order.
C15_BestCut ==
    [][(pc = "loop" /\ pq # EmptyBag /\ pq' # pq) =>
          LET size == popped'[1]
              root == popped'[3]
              cand == Candidates(root, cuts)
          IN /\ (size >= max_size /\ cand # {}) => IsCutStep
             /\ IsCutStep =>
                   /\ NewCut \in cand
                   /\ \A i \in cand \ {NewCut} :
                         \/ ImbalanceOf(size, tree_sizes[NewCut]) < ImbalanceOf(size, tree_sizes[i])
                         \/ /\ ImbalanceOf(size, tree_sizes[NewCut]) = ImbalanceOf(size, tree_sizes[i])
                            /\ PostBefore(NewCut, i)]_vars

\* a cut has been applied where a later candidate had the same imbalance as
\* the chosen node and another candidate a greater one
C15_Witness ==
    /\ pc = "loop"
    /\ popped # <<>>
    /\ \E v \in BagToSet(pq) :
          /\ v[3] \in cuts /\ v[3] # popped[3] /\ v[2][1] = popped[2][1]
          /\ v[1] = tree_sizes[v[3]]
          /\ \E i, j \in Candidates(popped[3], cuts \ {v[3]}) \ PathToRoot(tree.parents, v[3]) :
                /\ PostBefore(v[3], i)
                /\ v[3] \notin PathToRoot(tree.parents, i)
                /\ v[3] \notin PathToRoot(tree.parents, j)
                /\ ImbalanceOf(popped[1], tree_sizes[i]) = ImbalanceOf(popped[1], v[1])
                /\ ImbalanceOf(popped[1], tree_sizes[j]) > ImbalanceOf(popped[1], v[1])

\* the units in the queue and the unit just popped
UnitsAtHand == BagToSet(pq) \cup (IF popped = <<>> THEN {} ELSE {popped})

\* C16 as stated: for every unit (size, (lb, ub), root) in the queue or just
\* popped, tree_sizes[root] = size, for the unit cut off at best_cut and
\* for the remainder still rooted at the original root alike.
C16_RootEntryIsSize == \A u \in UnitsAtHand : tree_sizes[u[3]] = u[1]

\* C16: tree_sizes[root] >= size for every unit in the queue; a cut leaves
\* the entry of root as it was, enqueues the unit cut off at best_cut with
\* size = tree_sizes[best_cut], and enqueues the remainder, still rooted at
\* root, with the popped size less tree_sizes[best_cut].
C16_RootEntryKept ==
    [][/\ \A u \in BagToSet(pq') : tree_sizes'[u[3]] >= u[1]
       /\ IsCutStep =>
             /\ tree_sizes'[popped'[3]] = tree_sizes[popped'[3]]
             /\ tree_sizes'[NewCut] = tree_sizes[NewCut]
             /\ \E v, w \in BagToSet(pq') :
                   /\ v[3] = NewCut /\ v[1] = tree_sizes'[NewCut]
                   /\ w[3] = popped'[3] /\ w[1] = popped'[1] - tree_sizes'[NewCut]
                   /\ pq' = (pq (-) SetToBag({popped'})) (+) SetToBag({v}) (+) SetToBag({w})]_vars

\* a remainder unit is queued whose root entry is larger than its size, next
\* to the unit cut off from it
C16_Witness ==
    /\ pc = "loop"
    /\ popped # <<>>
    /\ \E v, w \in BagToSet(pq) :
          /\ v[3] \in cuts /\ v[3] # popped[3] /\ v[1] >= 1 /\ tree_sizes[v[3]] = v[1]
          /\ w[3] = popped[3] /\ w[1] >= 1 /\ v[1] + w[1] = popped[1]
          /\ tree_sizes[w[3]] > w[1]

StrictlyInside(r1, r2) == Indices(r1) \subseteq Indices(r2) /\ Indices(r1) # Indices(r2)

\* C18: the recorded ranges form a hierarchy: any two entries are disjoint
\* or one strictly contains the other (no partial overlap, no range recorded
\* twice), the first entry is (0, ntaxa) when ntaxa >= 2, and every other
\* range comes later than the range of the unit it was split from.
C18_Hierarchy ==
    /\ \A x, y \in 1 .. NRanges :
          x # y => \/ Disjoint(decomposition_ranges[x], decomposition_ranges[y])
                   \/ StrictlyInside(decomposition_ranges[x], decomposition_ranges[y])
                   \/ StrictlyInside(decomposition_ranges[y], decomposition_ranges[x])
    /\ (tree.ntaxa >= 2 /\ NRanges >= 1) => decomposition_ranges[1] = <<0, tree.ntaxa>>
    /\ \A y \in 2 .. NRanges :
          \E x \in 1 .. y - 1 :
              StrictlyInside(decomposition_ranges[y], decomposition_ranges[x])


\* the taxa stored at the positions lb .. ub-1
TaxaInSlice(lb, ub) == {reordered_taxa[x] : x \in lb .. ub - 1}

\* the leaves under node i, whatever has been cut
LeavesUnder(i) == {v \in SeqRange(postorder_from(tree, i)) : is_leaf(tree, v)}

\* C19: when a unit (size, (lb, ub), root) is popped, every node i other than
\* root that the search reaches has tree_sizes[i] = the number of leaves
\* under i whose taxa lie in reordered_taxa[lb..ub]; so tree_sizes[i] <= size,
\* an ancestor's entry is at least its descendant's, and none of the unsigned
\* subtractions underflows.
C19_SizeTable ==
    /\ pc # "panic"
    /\ \A u \in BagToSet(pq) :
          \A i \in ReachableFrom(u[3], cuts) \ {u[3]} :
              /\ tree_sizes[i] =
                    Cardinality({v \in LeavesUnder(i) : tree.taxa[v] \in TaxaInSlice(u[2][1], u[2][2])})
              /\ tree_sizes[i] <= u[1]
              /\ \A a \in PathToRoot(tree.parents, i) \cap (ReachableFrom(u[3], cuts) \ {u[3]}) :
                    tree_sizes[a] >= tree_sizes[i]

\* a unit is queued, after two cuts, in which a reached internal node has
\* lost part of its leaves to a cut below it
C19_Witness ==
    /\ pc = "loop"
    /\ Cardinality(cuts) >= 3
    /\ \E u \in BagToSet(pq) :
          \E i \in Candidates(u[3], cuts) :
              /\ tree_sizes[i] >= 1
              /\ tree_sizes[i] < Cardinality(LeavesUnder(i))


\* the taxa of the leaves reachable from root without entering a cut subtree
ReachableTaxa(root) ==
    {tree.taxa[v] : v \in {i \in ReachableFrom(root, cuts) : is_leaf(tree, i)}}

\* C20: every enqueued unit (size, (lb, ub), root) has ub - lb = size and
\* ub <= ntaxa, the pending units have pairwise disjoint index ranges, and
\* reordered_taxa[lb..ub] holds exactly the taxa of the leaves reachable from
\* root without entering a cut subtree.
C20_UnitSlices ==
    /\ \A u \in BagToSet(pq) :
          /\ u[2][2] - u[2][1] = u[1]
          /\ 0 <= u[2][1] /\ u[2][2] <= tree.ntaxa
          /\ u[1] >= 1 => pq[u] = 1
          /\ TaxaInSlice(u[2][1], u[2][2]) = ReachableTaxa(u[3])
    /\ \A u, v \in BagToSet(pq) : u # v => Disjoint(u[2], v[2])

\* after a cut that moved taxa, the unit cut off and the remainder are both
\* pending with at least 2 taxa each, next to a third unit
C20_Witness ==
    /\ pc = "loop"
    /\ popped # <<>>
    /\ \E v, w, z \in BagToSet(pq) :
          /\ v[3] \in cuts /\ v[3] # popped[3] /\ v[2][1] = popped[2][1] /\ v[1] >= 2
          /\ w[3] = popped[3] /\ w[2][2] = popped[2][2] /\ w[1] >= 1
          /\ v[1] + w[1] = popped[1]
          /\ z \notin {v, w} /\ z[1] >= 1
    /\ \E x \in DOMAIN reordered_taxa : reordered_taxa[x] # x


-----------------------------------------------------------------------------
(* Further properties of oneshot_melt *)

\* C17: after the sort the record at position p is the sequence of taxon
\* reordered_taxa[p], for every p, so the subset file of each range (lb, ub)
\* holds exactly the sequences of the taxa reordered_taxa[lb..ub].
C17_RecordsFollowPermutation ==
    /\ mpc \in {"build", "write", "serve"} =>
          \A p \in 0 .. NRecords - 1 : records[p].head = reordered_taxa[p]
    /\ mpc = "serve" =>
          \A x \in 1 .. Len(decomposition_ranges) :
              subsets[x] = [y \in 1 .. decomposition_ranges[x][2] - decomposition_ranges[x][1] |->
                               reordered_taxa[decomposition_ranges[x][1] + y - 1]]

====
